---- MODULE Spec2Model ----
(***************************************************************************)
(* A model of p2p-chat (console-go/main.go): the offline mailbox kept in   *)
(* the DHT (storeOfflineMessage / fetchOfflineMessages), the direct        *)
(* message protocol (sendMessage and the stream handler registered in      *)
(* main) and connectPeer.                                                  *)
(*                                                                         *)
(* Bytes are modelled as sequences of one-character symbols.  A Message    *)
(* travels as the JSON object json.Marshal produces, written here with its *)
(* keys left out: { from , when , "body" }.  The body is escaped the way   *)
(* encoding/json escapes it, and decoded the way it decodes it.            *)
(***************************************************************************)
EXTENDS Integers, Sequences, FiniteSets, TLC

\* ------------------------------------------------------------------ bounds

\* The key-value service's size ceiling, in Messages per value.
MaxBlobLen == 2

\* How many store commands are issued in all.
MaxStores == 2

\* How many streams sendMessage opens in all.
MaxStreams == 2

\* How many long-lived streams remote peers open in all.
MaxRawStreams == 1

\* How many times the long-lived senders write in all.
MaxWrites == 3

\* ------------------------------------------------------------- the domain

\* The running processes, named by their peer identifier (h.ID().String()).
\* A and B run "store <peer> <text>", X runs "fetch <peer>" for its own
\* mailbox.
Writers == {"A", "B"}
Recipients == {"X"}
Nodes == Writers \cup Recipients

\* A remote peer that runs other software: it opens a long-lived stream
\* under the protocol tag and writes what it likes.
RemotePeers == {"M"}

Peers == Nodes \cup RemotePeers

\* What is typed for <peerID> in "msg <peerID> <message>": a peer identifier,
\* or text that is none.
NotAPeerID == "?"

\* The reading time.Now().UnixMilli() gives.
Times == {1}

\* Message bodies: plain text, and text holding every character that JSON
\* must escape (quote, backslash, newline).
Bodies == {<<"h">>, <<"\"", "\\", "\n">>}

dhtMsgKeyPrefix == "/p2pchat/messages/"

\* type Message struct { From string; When int64; Body string }
Message(from, when, body) == [from |-> from, when |-> when, body |-> body]

\* The zero value of Message, what a JSON null or an ill-typed element leaves.
ZeroMessage == Message("", 0, <<>>)

\* ------------------------------------------------------------- JSON codec

Digits == <<"0", "1", "2", "3", "4", "5", "6", "7", "8", "9">>

\* An int64 as its decimal text (one digit is all the clock needs).
FormatInt(t) == Digits[t + 1]

ParseInt(d) == (CHOOSE i \in 1..Len(Digits) : Digits[i] = d) - 1

IsDigit(d) == \E i \in 1..Len(Digits) : Digits[i] = d

\* The text of a peer identifier as a JSON string (base58: nothing to escape).
IsIdent(s) == s \in Peers \cup {""}

\* (a serializer that escapes nothing)
QuoteCharRaw(c) == <<c>>

\* encoding/json writes ", \ and control characters of a string escaped.
QuoteChar(c) ==
    IF c = "\n" THEN <<"\\", "n">>
    ELSE IF c = "\"" THEN <<"\\", "\"">>
    ELSE IF c = "\\" THEN <<"\\", "\\">>
    ELSE <<c>>

RECURSIVE QuoteString(_)
QuoteString(s) ==
    IF s = <<>> THEN <<>> ELSE QuoteChar(Head(s)) \o QuoteString(Tail(s))

\* json.Marshal(m) for a Message.
MarshalMessage(m) ==
    <<"{", m.from, ",", FormatInt(m.when), ",", "\"">>
        \o QuoteString(m.body) \o <<"\"", "}">>

RECURSIVE UnquoteString(_)
UnquoteString(q) ==
    IF q = <<>> THEN <<>>
    ELSE IF Head(q) = "\\"
         THEN <<(IF q[2] = "n" THEN "\n" ELSE q[2])>> \o UnquoteString(Tail(Tail(q)))
    ELSE <<Head(q)>> \o UnquoteString(Tail(q))

\* The index of the quote that closes the JSON string whose content starts
\* at b[j], or 0 when the string is not closed or not valid.
RECURSIVE StringEnd(_, _)
StringEnd(b, j) ==
    IF j > Len(b) THEN 0
    ELSE IF b[j] = "\"" THEN j
    ELSE IF b[j] = "\\"
         THEN IF j < Len(b) /\ b[j + 1] \in {"n", "\"", "\\"}
              THEN StringEnd(b, j + 2) ELSE 0
    ELSE IF b[j] = "\n" THEN 0
    ELSE StringEnd(b, j + 1)

\* The index of the last symbol of the JSON value that starts at b[i] (a
\* Message object, null, or a number), or 0 when no valid value starts there.
ValueEnd(b, i) ==
    IF i > Len(b) THEN 0
    ELSE IF b[i] = "null" \/ IsDigit(b[i]) THEN i
    ELSE IF /\ i + 7 <= Len(b)
            /\ b[i] = "{" /\ IsIdent(b[i + 1]) /\ b[i + 2] = ","
            /\ IsDigit(b[i + 3]) /\ b[i + 4] = "," /\ b[i + 5] = "\""
         THEN LET q == StringEnd(b, i + 6)
              IN  IF q # 0 /\ q < Len(b) /\ b[q + 1] = "}" THEN q + 1 ELSE 0
    ELSE 0

\* Whether b is the text of one JSON object with a Message's fields.
IsObjectText(b) ==
    /\ b # <<>>
    /\ b[1] = "{"
    /\ ValueEnd(b, 1) = Len(b)

\* json.Unmarshal(b, &m) for a Message m that starts as the zero value: a
\* JSON null is accepted and leaves m alone, an object fills m, anything else
\* is an error and leaves m alone.
UnmarshalMessage(b) ==
    IF b = <<"null">> THEN [err |-> FALSE, m |-> ZeroMessage]
    ELSE IF IsObjectText(b)
         THEN [err |-> FALSE,
               m |-> Message(b[2], ParseInt(b[4]),
                             UnquoteString(SubSeq(b, 7, Len(b) - 2)))]
    ELSE [err |-> TRUE, m |-> ZeroMessage]

\* strings.TrimSpace: leading and trailing white space removed.
IsSpace(c) == c \in {" ", "\n", "\r", "\t"}

RECURSIVE TrimLeft(_)
TrimLeft(s) ==
    IF s # <<>> /\ IsSpace(Head(s)) THEN TrimLeft(Tail(s)) ELSE s

RECURSIVE TrimRight(_)
TrimRight(s) ==
    IF s # <<>> /\ IsSpace(s[Len(s)]) THEN TrimRight(SubSeq(s, 1, Len(s) - 1)) ELSE s

TrimSpace(s) == TrimRight(TrimLeft(s))

\* json.Marshal(msgs) for a []Message: [ element , element ... ].
RECURSIVE JoinElements(_)
JoinElements(msgs) ==
    IF msgs = <<>> THEN <<>>
    ELSE IF Len(msgs) = 1 THEN MarshalMessage(msgs[1])
    ELSE MarshalMessage(Head(msgs)) \o <<",">> \o JoinElements(Tail(msgs))

MarshalMessages(msgs) == <<"[">> \o JoinElements(msgs) \o <<"]">>

\* The texts of the elements of the JSON array b from b[i] on, the closing
\* bracket being b's last symbol; ok is FALSE on a syntax error.
RECURSIVE SplitElements(_, _)
SplitElements(b, i) ==
    LET e == ValueEnd(b, i)
    IN  IF e = 0 \/ e >= Len(b) THEN [ok |-> FALSE, elems |-> <<>>]
        ELSE IF e + 1 = Len(b)
             THEN [ok |-> b[e + 1] = "]", elems |-> <<SubSeq(b, i, e)>>]
        ELSE IF b[e + 1] = ","
             THEN LET rest == SplitElements(b, e + 2)
                  IN  [ok |-> rest.ok, elems |-> <<SubSeq(b, i, e)>> \o rest.elems]
        ELSE [ok |-> FALSE, elems |-> <<>>]

\* json.Unmarshal(val, &msgs) for msgs a nil []Message.  Invalid JSON is
\* rejected before anything is stored.  null leaves msgs nil.  In an array
\* every element is decoded: an element of the wrong type is left as the zero
\* Message and the first such error is returned after the whole array has
\* been decoded.  Any other JSON value is a type error and leaves msgs nil.
UnmarshalMessages(b) ==
    IF b = <<"null">> \/ b = <<"[", "]">> THEN [err |-> FALSE, msgs |-> <<>>]
    ELSE IF Len(b) >= 3 /\ b[1] = "["
         THEN LET split == SplitElements(b, 2)
                  dec == [i \in 1..Len(split.elems) |-> UnmarshalMessage(split.elems[i])]
              IN  IF split.ok
                  THEN [err  |-> \E i \in 1..Len(dec) : dec[i].err,
                        msgs |-> [i \in 1..Len(dec) |-> dec[i].m]]
                  ELSE [err |-> TRUE, msgs |-> <<>>]
    ELSE [err |-> TRUE, msgs |-> <<>>]

\* ---------------------------------------------------------------- state

VARIABLES
    kv,        \* the key-value service (the DHT): key -> stored blob, or NoValue
    pc,        \* per node: where its command loop stands
    loc,       \* per node: the local variables of the command it is running
    res,       \* per node: what its last finished command returned and printed
    lastPut,   \* per key: the Message appended by the latest Store whose Put succeeded
    issued,    \* the store and connect commands issued so far
    streams,   \* the streams opened under protocolID, in the order they were opened
    peerstore, \* per node: its peer directory, a set of [id, addr, ttl] entries
    conns,     \* the connections made: pairs <<node, peer>>
    disk       \* the identity record at identityFile: its bytes, or NoFile

vars == <<kv, pc, loc, res, lastPut, issued, streams, peerstore, conns, disk>>

\* No file is at the path.
NoFile == <<"NoFile">>

\* No value is stored under the key.
NoValue == <<"NoValue">>

\* key := dhtMsgKeyPrefix + recipientPeerID
MailboxKey(r) == <<dhtMsgKeyPrefix, r>>

Keys == {MailboxKey(r) : r \in Recipients}

\* error values
Nil == <<>>
ErrNotFound == <<"routing: not found">>
ErrGetFailed == <<"get failed">>
ErrPutFailed == <<"put failed">>
ErrJSON == <<"json">>

\* (the cause dropped from the returned error)
WrapFetchErrorOpaque(err) == <<"no messages or error">>

\* fmt.Errorf("no messages or error: %w", err)
WrapFetchError(err) == <<"no messages or error">> \o err

\* dht.GetValue(ctx, key): the stored blob, not found when nothing is stored,
\* or a failure of the lookup itself.
GetValue(key) ==
    {[err |-> ErrGetFailed, val |-> NoValue]}
        \cup (IF kv[key] = NoValue
               THEN {[err |-> ErrNotFound, val |-> NoValue]}
               ELSE {[err |-> Nil, val |-> kv[key]]})

\* dht.PutValue(ctx, key, blob) may be refused; a blob over the size ceiling
\* always is.
PutValue(msgs) ==
    {ErrPutFailed} \cup (IF Len(msgs) <= MaxBlobLen THEN {Nil} ELSE {})

\* Values found under a key that this model did not write: nothing, a mailbox
\* left by an earlier run, bytes that are not JSON, and a JSON array whose
\* element is not a Message.
EarlierMessage == Message("B", 0, <<"h">>)
Garbage == <<"x">>
IllTyped == <<"[", "1", "]">>
InitialValues == {NoValue, MarshalMessages(<<EarlierMessage>>), Garbage, IllTyped}

NoLocals ==
    [key |-> <<>>, entry |-> <<>>, msgs |-> <<>>, blob |-> <<>>, get |-> Nil,
     corrupt |-> FALSE, raced |-> FALSE]

NoResult ==
    [op |-> "none", key |-> <<>>, err |-> Nil, msgs |-> <<>>, get |-> Nil,
     absent |-> FALSE, corrupt |-> FALSE, raced |-> FALSE, seen |-> <<>>,
     put |-> Nil, stale |-> FALSE, again |-> FALSE]

InitMailbox ==
    /\ kv \in [Keys -> InitialValues]
    /\ pc = [n \in Nodes |-> "idle"]
    /\ loc = [n \in Nodes |-> NoLocals]
    /\ res = [n \in Nodes |-> NoResult]
    /\ lastPut = [k \in Keys |-> <<>>]
    /\ issued = 0
    /\ streams = <<>>
    /\ peerstore = [n \in Nodes |-> {}]
    /\ conns = {}
    /\ disk = NoFile

\* ------------------------------------------------------------- the mailbox

\* (the new Message put first)
PrependMessage(msgs, m) == <<m>> \o msgs

\* msgs = append(msgs, Message{From: from, When: time.Now().UnixMilli(), Body: body})
AppendMessage(msgs, m) == Append(msgs, m)

\* What storeOfflineMessage holds in msgs after GetValue returned g: the
\* decoded value when err == nil (Unmarshal's own error is dropped), nil
\* otherwise.
DecodeForStore(g) ==
    IF g.err = Nil THEN UnmarshalMessages(g.val).msgs ELSE <<>>

\* storeOfflineMessage up to the call of PutValue: GetValue, Unmarshal,
\* append, Marshal.
StoreGet(n, r, body) ==
    /\ pc[n] = "idle"
    /\ issued < MaxStores
    /\ issued' = issued + 1
    /\ \E g \in GetValue(MailboxKey(r)), t \in Times :
         LET msgs == AppendMessage(DecodeForStore(g), Message(n, t, body))
         IN  loc' = [loc EXCEPT ![n] =
                        [key   |-> MailboxKey(r),
                         entry |-> <<Message(n, t, body)>>,
                         msgs  |-> msgs,
                         blob  |-> MarshalMessages(msgs),
                         get   |-> g.err,
                         corrupt |-> g.err = Nil /\ UnmarshalMessages(g.val).err,
                         raced |-> FALSE]]
    /\ pc' = [pc EXCEPT ![n] = "put"]
    /\ UNCHANGED <<disk, peerstore, conns, kv, res, lastPut, streams>>

\* (a rejected Put reported as success)
StoreResultSilent(err) == Nil

\* if err := dht.PutValue(ctx, key, n); err != nil { return err } ... return nil
StoreResult(err) == err

\* storeOfflineMessage from PutValue to its return.  (msgs of the result is
\* the one Message this call appended; put is what PutValue returned; a
\* Fetch result on the key is stale once a Put on it has succeeded.)
StorePut(n) ==
    /\ pc[n] = "put"
    /\ \E err \in PutValue(loc[n].msgs) :
         /\ kv' = IF err = Nil THEN [kv EXCEPT ![loc[n].key] = loc[n].blob] ELSE kv
         /\ lastPut' = IF err = Nil
                        THEN [lastPut EXCEPT ![loc[n].key] = loc[n].entry]
                        ELSE lastPut
         /\ res' = [m \in Nodes |->
                        IF m = n
                        THEN [op     |-> "store",
                              key    |-> loc[n].key,
                              err    |-> StoreResult(err),
                              msgs   |-> loc[n].entry,
                              get    |-> loc[n].get,
                              absent |-> FALSE,
                              corrupt |-> loc[n].corrupt,
                              raced  |-> loc[n].raced,
                              seen   |-> <<>>,
                              put    |-> err,
                              stale  |-> FALSE,
                              again  |-> FALSE]
                        ELSE IF err = Nil /\ res[m].op = "fetch" /\ res[m].key = loc[n].key
                             THEN [res[m] EXCEPT !.stale = TRUE]
                        ELSE res[m]]
         \* another Store still between its Get and its Put has been overtaken
         /\ loc' = [m \in Nodes |->
                        IF m = n THEN NoLocals
                        ELSE IF err = Nil /\ pc[m] = "put" /\ loc[m].key = loc[n].key
                             THEN [loc[m] EXCEPT !.raced = TRUE]
                        ELSE loc[m]]
    /\ pc' = [pc EXCEPT ![n] = "idle"]
    /\ UNCHANGED <<disk, issued, streams, peerstore, conns>>

\* A Fetch result that a Fetch of key following it can be compared with: it
\* returned a sequence and no Put on the key has succeeded since.
Refetch(n, key) ==
    res[n].op = "fetch" /\ res[n].key = key /\ res[n].err = Nil /\ ~res[n].stale

\* (a Fetch that takes the messages out of the mailbox)
FetchAndClear(n, r) ==
    /\ pc[n] = "idle"
    /\ \E g \in GetValue(MailboxKey(r)) :
         LET u == UnmarshalMessages(g.val)
             err == IF g.err # Nil THEN WrapFetchError(g.err)
                    ELSE IF u.err THEN ErrJSON ELSE Nil
         IN  /\ res' = [res EXCEPT ![n] =
                          [NoResult EXCEPT !.op = "fetch", !.key = MailboxKey(r),
                                           !.err = err, !.get = g.err,
                                           !.msgs = IF err = Nil THEN u.msgs ELSE <<>>]]
             /\ kv' = IF err = Nil THEN [kv EXCEPT ![MailboxKey(r)] = NoValue] ELSE kv
    /\ UNCHANGED <<disk, peerstore, conns, pc, loc, lastPut, issued, streams>>

\* fetchOfflineMessages: one GetValue, Unmarshal, print.  (again: the result
\* before it was a Fetch of the key that it can be compared with.)
Fetch(n, r) ==
    /\ pc[n] = "idle"
    /\ \E g \in GetValue(MailboxKey(r)) :
         LET u == UnmarshalMessages(g.val)
             err == IF g.err # Nil THEN WrapFetchError(g.err)
                    ELSE IF u.err THEN ErrJSON ELSE Nil
         IN  res' = [res EXCEPT ![n] =
                        [op     |-> "fetch",
                         key    |-> MailboxKey(r),
                         err    |-> err,
                         msgs   |-> IF err = Nil THEN u.msgs ELSE <<>>,
                         get    |-> g.err,
                         absent |-> kv[MailboxKey(r)] = NoValue,
                         corrupt |-> g.err = Nil /\ u.err,
                         raced  |-> FALSE,
                         seen   |-> lastPut[MailboxKey(r)],
                         put    |-> Nil,
                         stale  |-> FALSE,
                         again  |-> Refetch(n, MailboxKey(r))]]
    /\ UNCHANGED <<disk, peerstore, conns, kv, pc, loc, lastPut, issued, streams>>

NextMailbox ==
    \/ \E n \in Writers, r \in Recipients, body \in Bodies : StoreGet(n, r, body)
    \/ \E n \in Writers : StorePut(n)
    \/ \E n \in Recipients : Fetch(n, n)

SpecMailbox == InitMailbox /\ [][NextMailbox]_vars

\* ------------------------------------------------------ mailbox properties

\* The Messages a stored value decodes to (none when nothing is stored or the
\* value does not decode).
Entries(blob) ==
    LET u == UnmarshalMessages(blob)
    IN  IF blob = NoValue \/ u.err THEN {} ELSE {u.msgs[i] : i \in 1..Len(u.msgs)}

WellFormed(blob) == blob # NoValue /\ ~UnmarshalMessages(blob).err

SameSenderAndBody(m1, m2) == m1.from = m2.from /\ m1.body = m2.body

\* A Fetch that ran after a Store's Put succeeded, no other Put in between.
FetchedAfterStore(n) == res[n].op = "fetch" /\ res[n].seen # <<>>

FetchReturnedTheStored(n) ==
    /\ res[n].err = Nil
    /\ res[n].msgs # <<>>
    /\ SameSenderAndBody(res[n].msgs[Len(res[n].msgs)], res[n].seen[1])

\* C1 as stated: a Fetch that follows a successful Store(X, A, b), with no
\* other Store on the key in between, succeeds and the last Message it
\* returns has from = A and body = b.
C1_StoreThenFetchAlwaysSucceeds ==
    \A n \in Nodes : FetchedAfterStore(n) => FetchReturnedTheStored(n)

\* C1 as amended: a Fetch that follows a successful Store(X, A, b), with no
\* other Store on the key in between, and whose own GetValue does not fail,
\* succeeds and the last Message it returns has from = A and body = b,
\* whatever the key held before the Store.
C1_StoreThenFetch ==
    \A n \in Nodes :
        FetchedAfterStore(n) /\ res[n].get # ErrGetFailed => FetchReturnedTheStored(n)

\* A Fetch returned, behind an older Message, the Message just stored, whose
\* body holds a quote, a backslash and a newline.
C1_Witness ==
    \E n \in Nodes :
        /\ FetchedAfterStore(n)
        /\ res[n].err = Nil
        /\ Len(res[n].msgs) >= 2
        /\ res[n].seen[1].body = <<"\"", "\\", "\n">>

\* C2: once a Store's Put has succeeded on a key, the value under the key
\* always decodes as a sequence of Message (every value a Store writes is
\* whole and well formed), and it holds the Message of the latest successful
\* Put; so when two Stores on the key have both returned ok, however their
\* Gets and Puts interleaved, the value holds the entry of at least one.
C2_RacingStoresLeaveValidMailbox ==
    /\ \A k \in Keys :
          lastPut[k] # <<>> => WellFormed(kv[k]) /\ lastPut[k][1] \in Entries(kv[k])
    /\ \A a \in Writers : \A b \in Writers \ {a} :
          ( /\ pc[a] = "idle" /\ res[a].op = "store" /\ res[a].err = Nil
            /\ pc[b] = "idle" /\ res[b].op = "store" /\ res[b].err = Nil
            /\ res[a].key = res[b].key )
          => /\ WellFormed(kv[res[a].key])
             /\ \/ res[a].msgs[1] \in Entries(kv[res[a].key])
                \/ res[b].msgs[1] \in Entries(kv[res[a].key])

\* Two Stores on one key both returned ok, the second Put having overtaken a
\* Store that had already done its Get.
C2_Witness ==
    \E a \in Writers : \E b \in Writers \ {a} :
        /\ pc[a] = "idle" /\ res[a].op = "store" /\ res[a].err = Nil
        /\ pc[b] = "idle" /\ res[b].op = "store" /\ res[b].err = Nil
        /\ res[a].key = res[b].key
        /\ res[b].raced
        /\ res[a].msgs[1].body = <<"\"", "\\", "\n">>

\* C3 (its safety half): a Store that returns ok and whose Get ran after the
\* Put of the Store before it (no Put came between its own Get and Put) does
\* not lose that Store's entry.
C3_NoLossWithoutRace ==
    [][\A n \in Writers :
          ( /\ pc[n] = "put" /\ pc'[n] = "idle" /\ res'[n].err = Nil
            /\ ~loc[n].raced
            /\ lastPut[loc[n].key] # <<>> )
          => lastPut[loc[n].key][1] \in Entries(kv'[loc[n].key])]_vars

\* C3 (its existence half): both Stores did their Get before either Put, both
\* returned ok, and the value holds only the entry of the later Put.
C3_LostUpdate ==
    \E a \in Writers : \E b \in Writers \ {a} :
        /\ pc[a] = "idle" /\ res[a].op = "store" /\ res[a].err = Nil
        /\ pc[b] = "idle" /\ res[b].op = "store" /\ res[b].err = Nil
        /\ res[b].raced /\ res[a].get # ErrGetFailed /\ res[b].get # ErrGetFailed
        /\ res[b].msgs[1] \in Entries(kv[res[b].key])
        /\ res[a].msgs[1] \notin Entries(kv[res[b].key])

\* C4: a Store whose Get returned a blob that does not decode returns an
\* error (and so has issued no Put).
C4_CorruptMailboxIsAnError ==
    \A n \in Nodes :
        /\ pc[n] = "put" => ~loc[n].corrupt
        /\ res[n].op = "store" /\ res[n].corrupt => res[n].err # Nil

\* C5: a Store whose Get failed with an error other than NotFound returns an
\* error and does not Put.
C5_GetFailureIsAnError ==
    \A n \in Nodes :
        /\ pc[n] = "put" => loc[n].get # ErrGetFailed
        /\ res[n].op = "store" /\ res[n].get = ErrGetFailed => res[n].err # Nil

\* C6 as stated: a Fetch of a key under which nothing was ever stored returns
\* the not-found error.
C6_FetchOfNothingIsNotFound ==
    \A n \in Nodes :
        res[n].op = "fetch" /\ res[n].absent => res[n].err = WrapFetchError(ErrNotFound)

\* C6 as amended: a Fetch of a key under which nothing was ever stored never
\* succeeds and never returns a deserialization error; it returns the error
\* of its GetValue, wrapped: the not-found error when the service reports
\* not found, and an error that differs from it when the Get failed for
\* another reason.
C6_FetchOfNothing ==
    \A n \in Nodes :
        res[n].op = "fetch" /\ res[n].absent
        => /\ res[n].err \notin {Nil, ErrJSON}
           /\ res[n].msgs = <<>>
           /\ res[n].get = ErrNotFound <=> res[n].err = WrapFetchError(ErrNotFound)
           /\ res[n].get = ErrGetFailed <=> res[n].err # WrapFetchError(ErrNotFound)

\* A Fetch found nothing under the key and returned the not-found error.
C6_Witness ==
    \E n \in Nodes :
        /\ res[n].op = "fetch" /\ res[n].absent
        /\ res[n].get = ErrNotFound
        /\ res[n].err = <<"no messages or error", "routing: not found">>

\* The sequence of Messages a stored value decodes to (empty when nothing is
\* stored or the value does not decode).
StoredSequence(blob) ==
    LET u == UnmarshalMessages(blob)
    IN  IF blob = NoValue \/ u.err THEN <<>> ELSE u.msgs

\* The step in which the Store of n returns.
StoreReturns(n) == pc[n] = "put" /\ pc'[n] = "idle"

\* C11: the Put of a Store that returns ok, on a key that holds nothing or a
\* sequence of Messages, leaves under the key the sequence that was there
\* just before it with the one new Message appended at the end; and a Fetch
\* that succeeds returns the stored sequence in its order.
C11_AppendOnly ==
    [][/\ \A n \in Writers :
             /\ StoreReturns(n) /\ res'[n].err = Nil
             /\ kv[loc[n].key] = NoValue \/ WellFormed(kv[loc[n].key])
             => StoredSequence(kv'[loc[n].key])
                    = StoredSequence(kv[loc[n].key]) \o loc[n].entry
       /\ \A n \in Recipients :
             res'[n].op = "fetch" /\ res'[n].err = Nil /\ ~res'[n].stale
             => res'[n].msgs = StoredSequence(kv'[res'[n].key])]_vars

\* C12: when PutValue rejects the Put of a Store, the Store returns that
\* error and not success, the command is over with that one Put (another
\* Put takes another store command), and the step leaves every stored value
\* as it was.
C12_RejectedPutIsReturned ==
    [][\A n \in Writers :
          StoreReturns(n) /\ res'[n].put # Nil
          => /\ res'[n].err = res'[n].put
             /\ res'[n].err # Nil
             /\ kv' = kv
             /\ lastPut' = lastPut
             /\ \A m \in Nodes : pc'[m] = "put" => pc[m] = "put" /\ m # n]_vars

\* A Store on a full mailbox was rejected and returned the error; the value
\* under the key is still the full mailbox.
C12_Witness ==
    \E n \in Writers :
        /\ pc[n] = "idle"
        /\ res[n].op = "store" /\ res[n].put = ErrPutFailed /\ res[n].err = ErrPutFailed
        /\ Len(StoredSequence(kv[res[n].key])) = MaxBlobLen

\* The step in which a Fetch of n returns a result that differs from the
\* result n had.
FetchReturns(n) == res'[n] # res[n] /\ res'[n].op = "fetch" /\ ~res'[n].stale

\* C18: a Fetch, whatever it returns, leaves every stored value as it was
\* and starts nothing; and a Fetch that returns a sequence, following a Fetch
\* of the same key that returned a sequence with no Put on the key in
\* between, returns the same sequence.
C18_FetchIsReadOnly ==
    [][\A n \in Recipients :
          FetchReturns(n)
          => /\ kv' = kv
             /\ lastPut' = lastPut
             /\ pc' = pc /\ loc' = loc
             /\ res'[n].again /\ res'[n].err = Nil => res'[n].msgs = res[n].msgs]_vars

\* A Fetch returned the mailbox a second time, with no Put in between, and
\* the value under the key still holds what it returned.
C18_Witness ==
    \E n \in Recipients :
        /\ res[n].op = "fetch" /\ res[n].again /\ res[n].err = Nil
        /\ res[n].msgs # <<>>
        /\ res[n].msgs = StoredSequence(kv[res[n].key])

\* ------------------------------------------------------------ the streams

NewLine == "\n"

ErrDecode == <<"failed to parse peer ID">>
ErrNewStream == <<"failed to open stream">>
ErrWrite == <<"write failed">>

\* peer.Decode(peerIDStr)
DecodesAsPeer(t) == t \in Peers

\* A stream between src (the side that opened it) and dst (the side whose
\* handler reads it).  written is all that src ever wrote, unread what dst has
\* not read yet; eof: src closed its side; broken: the connection failed;
\* hpc: dst's handler is running, or returned at end of stream, or on a
\* read error; arg and sent: the body given to sendMessage and whether it
\* returned nil.
NewStreamRecord(kind, src, dst, arg) ==
    [kind |-> kind, src |-> src, dst |-> dst, arg |-> arg, sent |-> FALSE,
     sopen |-> TRUE, eof |-> FALSE, broken |-> FALSE,
     written |-> <<>>, unread |-> <<>>,
     hpc |-> "run", ropen |-> TRUE, delivered |-> <<>>, invalid |-> <<>>]

\* h.NewStream(ctx, pid, protocolID): fails when the peer cannot be reached
\* (a peer never reaches itself, and only a peer running this program
\* answers the protocol here).
NewStream(n, target) ==
    {ErrNewStream}
        \cup (IF Len(streams) < MaxStreams /\ target \in Writers \ {n}
               THEN {Nil} ELSE {})

\* The node whose operator types "msg <peerID> <message>".
Senders == {"A"}

NoSendLocals == [sid |-> 0, body |-> <<>>]

NoSendResult == [op |-> "none", err |-> Nil, sid |-> 0]

InitStream ==
    /\ kv = [k \in Keys |-> NoValue]
    /\ pc = [n \in Nodes |-> "idle"]
    /\ loc = [n \in Nodes |-> NoSendLocals]
    /\ res = [n \in Nodes |-> NoSendResult]
    /\ lastPut = [k \in Keys |-> <<>>]
    /\ issued = 0
    /\ streams = <<>>
    /\ peerstore = [n \in Nodes |-> {}]
    /\ conns = {}
    /\ disk = NoFile

\* sendMessage up to the first Write: peer.Decode, h.NewStream.
SendOpen(n, target, body) ==
    /\ pc[n] = "idle"
    /\ \/ /\ ~DecodesAsPeer(target)
          /\ res' = [res EXCEPT ![n] = [op |-> "send", err |-> ErrDecode, sid |-> 0]]
          /\ UNCHANGED <<pc, loc, streams>>
       \/ /\ DecodesAsPeer(target)
          /\ \E err \in NewStream(n, target) :
               IF err # Nil
               THEN /\ res' = [res EXCEPT ![n] = [op |-> "send", err |-> err, sid |-> 0]]
                    /\ UNCHANGED <<pc, loc, streams>>
               ELSE /\ streams' = Append(streams, NewStreamRecord("send", n, target, body))
                    /\ pc' = [pc EXCEPT ![n] = "write"]
                    /\ loc' = [loc EXCEPT ![n] = [sid |-> Len(streams) + 1, body |-> body]]
                    /\ UNCHANGED res
    /\ UNCHANGED <<disk, peerstore, conns, kv, lastPut, issued>>

\* b, _ := json.Marshal(m); b = append(b, '\n')
Frame(m) == MarshalMessage(m) \o <<NewLine>>

\* What a Write of b puts on the stream: all of b when it succeeds, and when
\* it fails nothing, or b short of its last byte.
WriteOutcomes(st, b) ==
    {[err |-> ErrWrite, wrote |-> <<>>]}
        \cup (IF st.broken THEN {}
               ELSE {[err |-> Nil, wrote |-> b],
                     [err |-> ErrWrite, wrote |-> SubSeq(b, 1, Len(b) - 1)]})

\* (the stream released only after a successful write)
CloseIfSent(st, err) ==
    IF err = Nil THEN [st EXCEPT !.sopen = FALSE, !.eof = TRUE] ELSE st

\* defer s.Close(): runs on every return that follows NewStream.
DeferredClose(st, err) == [st EXCEPT !.sopen = FALSE, !.eof = TRUE]

\* (the addressee written as the sender)
MessageFromTarget(n, st, t, body) == Message(st.dst, t, body)

\* m := Message{From: h.ID().String(), When: time.Now().UnixMilli(), Body: body}
MessageToSend(n, st, t, body) == Message(n, t, body)

\* sendMessage from the Write to its return.
SendWrite(n) ==
    /\ pc[n] = "write"
    /\ LET sid == loc[n].sid
           st == streams[sid]
       IN  \E t \in Times :
           \E w \in WriteOutcomes(st, Frame(MessageToSend(n, st, t, loc[n].body))) :
               /\ streams' = [streams EXCEPT ![sid] =
                      DeferredClose([st EXCEPT !.written = @ \o w.wrote,
                                               !.unread = @ \o w.wrote,
                                               !.sent = (w.err = Nil)], w.err)]
               /\ res' = [res EXCEPT ![n] = [op |-> "send", err |-> w.err, sid |-> sid]]
    /\ pc' = [pc EXCEPT ![n] = "idle"]
    /\ loc' = [loc EXCEPT ![n] = NoSendLocals]
    /\ UNCHANGED <<disk, peerstore, conns, kv, lastPut, issued>>

\* What a long-lived sender writes at a time: a frame (with white space
\* around it, a CR LF ending, and another peer named as its sender), a line
\* that is not JSON, and a Message record with no newline after it.
RawChunks(src) ==
    { <<" ">> \o MarshalMessage(Message("A", 1, <<"h">>)) \o <<"\r", NewLine>>,
      <<"x", NewLine>>,
      MarshalMessage(Message(src, 2, <<"\"">>)) }

\* The writes made so far by long-lived senders: each costs one of MaxWrites.
RECURSIVE RawWrites(_)
RawWrites(ss) ==
    IF ss = <<>> THEN 0
    ELSE (IF Head(ss).kind = "raw" THEN Head(ss).arg[1] ELSE 0) + RawWrites(Tail(ss))

\* A remote peer opens a stream under protocolID (at most max are opened).
RawOpenUpTo(max, src, dst) ==
    /\ Len(streams) < max
    /\ streams' = Append(streams, NewStreamRecord("raw", src, dst, <<0>>))
    /\ UNCHANGED <<disk, peerstore, conns, kv, pc, loc, res, lastPut, issued>>

RawOpen(src, dst) == RawOpenUpTo(MaxRawStreams, src, dst)

\* ... writes to it ...
RawWrite(i, chunk) ==
    /\ streams[i].kind = "raw"
    /\ streams[i].sopen /\ ~streams[i].broken /\ streams[i].ropen
    /\ RawWrites(streams) < MaxWrites
    /\ streams' = [streams EXCEPT ![i].written = @ \o chunk,
                                  ![i].unread = @ \o chunk,
                                  ![i].arg = <<@[1] + 1>>]
    /\ UNCHANGED <<disk, peerstore, conns, kv, pc, loc, res, lastPut, issued>>

\* ... and closes it.
RawClose(i) ==
    /\ streams[i].kind = "raw"
    /\ streams[i].sopen
    /\ streams' = [streams EXCEPT ![i].sopen = FALSE, ![i].eof = TRUE]
    /\ UNCHANGED <<disk, peerstore, conns, kv, pc, loc, res, lastPut, issued>>

\* The connection under a stream fails: reads and writes return errors.
Break(i) ==
    /\ ~streams[i].broken
    /\ streams[i].hpc = "run"
    /\ streams' = [streams EXCEPT ![i].broken = TRUE]
    /\ UNCHANGED <<disk, peerstore, conns, kv, pc, loc, res, lastPut, issued>>

\* ---------------------------------------------------- the stream handler

HasLine(b) == \E i \in 1..Len(b) : b[i] = NewLine

\* r.ReadString('\n') with a whole line at hand: the bytes up to and with the
\* first newline, and what stays unread.
ReadString(b) ==
    LET i == CHOOSE j \in 1..Len(b) :
                 b[j] = NewLine /\ \A k \in 1..(j - 1) : b[k] # NewLine
    IN  [line |-> SubSeq(b, 1, i), rest |-> SubSeq(b, i + 1, Len(b))]

\* (the handler giving up at the first line that does not parse)
HandleLineStop(st, text) ==
    LET u == UnmarshalMessage(text)
    IN  IF u.err
        THEN [st EXCEPT !.invalid = Append(@, text), !.hpc = "eof", !.ropen = FALSE]
        ELSE [st EXCEPT !.delivered = Append(@, u.m)]

\* The body of the handler's loop for a line read and trimmed: Unmarshal;
\* "invalid message from ..." and continue, or the Message printed.
HandleLine(st, text) ==
    LET u == UnmarshalMessage(text)
    IN  IF u.err
        THEN [st EXCEPT !.invalid = Append(@, text)]
        ELSE [st EXCEPT !.delivered = Append(@, u.m)]

\* (a handler that takes its turn only between two commands)
HandlerReadBetweenCommands(i) ==
    /\ streams[i].hpc = "run"
    /\ HasLine(streams[i].unread)
    /\ pc[streams[i].dst] = "idle"
    /\ \E r \in {ReadString(streams[i].unread)} :
       \E text \in {TrimSpace(r.line)} :
          streams' = [streams EXCEPT ![i] =
                         HandleLine([streams[i] EXCEPT !.unread = r.rest], text)]
    /\ UNCHANGED <<disk, peerstore, conns, kv, pc, loc, res, lastPut, issued>>

\* One turn of the handler's loop: a line is read, trimmed and handled.
HandlerRead(i) ==
    /\ streams[i].hpc = "run"
    /\ HasLine(streams[i].unread)
    /\ \E r \in {ReadString(streams[i].unread)} :
       \E text \in {TrimSpace(r.line)} :
          streams' = [streams EXCEPT ![i] =
                         HandleLine([streams[i] EXCEPT !.unread = r.rest], text)]
    /\ UNCHANGED <<disk, peerstore, conns, kv, pc, loc, res, lastPut, issued>>

\* (a handler that returns at the end of the stream and leaves it open)
HandlerEOFNoClose(i) ==
    /\ streams[i].hpc = "run"
    /\ ~HasLine(streams[i].unread)
    /\ streams[i].eof /\ ~streams[i].broken
    /\ streams' = [streams EXCEPT ![i].hpc = "eof"]
    /\ UNCHANGED <<disk, peerstore, conns, kv, pc, loc, res, lastPut, issued>>

\* (a handler that takes the bytes before the end of the stream for a frame)
HandlerEOFDelivers(i) ==
    /\ streams[i].hpc = "run"
    /\ ~HasLine(streams[i].unread)
    /\ streams[i].eof /\ ~streams[i].broken
    /\ \E text \in {TrimSpace(streams[i].unread)} :
          streams' = [streams EXCEPT ![i] =
                         [HandleLine([streams[i] EXCEPT !.unread = <<>>], text)
                             EXCEPT !.hpc = "eof", !.ropen = FALSE]]
    /\ UNCHANGED <<disk, peerstore, conns, kv, pc, loc, res, lastPut, issued>>

\* ReadString returns io.EOF (with the bytes that no newline followed): the
\* handler returns, and its deferred s.Close() runs.
HandlerEOF(i) ==
    /\ streams[i].hpc = "run"
    /\ ~HasLine(streams[i].unread)
    /\ streams[i].eof /\ ~streams[i].broken
    /\ streams' = [streams EXCEPT ![i].hpc = "eof", ![i].ropen = FALSE]
    /\ UNCHANGED <<disk, peerstore, conns, kv, pc, loc, res, lastPut, issued>>

\* ReadString returns another error: "stream read err:", return, s.Close().
HandlerReadErr(i) ==
    /\ streams[i].hpc = "run"
    /\ streams[i].broken
    /\ streams' = [streams EXCEPT ![i].hpc = "err", ![i].ropen = FALSE]
    /\ UNCHANGED <<disk, peerstore, conns, kv, pc, loc, res, lastPut, issued>>

\* A handler's only state is its own stream and reader (s, r, line, m are
\* locals of the closure), so the one-shot streams of sendMessage and the
\* long-lived streams of remote peers are explored apart.
NextSend ==
    \/ \E n \in Senders, target \in Writers \cup {NotAPeerID}, body \in Bodies :
          SendOpen(n, target, body)
    \/ \E n \in Senders : SendWrite(n)
    \/ \E i \in 1..Len(streams) : Break(i)
    \/ \E i \in 1..Len(streams) : HandlerRead(i)
    \/ \E i \in 1..Len(streams) : HandlerEOF(i)
    \/ \E i \in 1..Len(streams) : HandlerReadErr(i)

SpecSend == InitStream /\ [][NextSend]_vars

NextHandler ==
    \/ \E src \in RemotePeers, dst \in {"B"} : RawOpen(src, dst)
    \/ \E i \in 1..Len(streams) : \E chunk \in RawChunks(streams[i].src) : RawWrite(i, chunk)
    \/ \E i \in 1..Len(streams) : RawClose(i)
    \/ \E i \in 1..Len(streams) : Break(i)
    \/ \E i \in 1..Len(streams) : HandlerRead(i)
    \/ \E i \in 1..Len(streams) : HandlerEOF(i)
    \/ \E i \in 1..Len(streams) : HandlerReadErr(i)

SpecHandler == InitStream /\ [][NextHandler]_vars

\* ------------------------------------------------------ stream properties

\* The bytes of a stream that its handler has read.
Consumed(st) == SubSeq(st.written, 1, Len(st.written) - Len(st.unread))

\* The Messages a frame can carry in this model.
FrameMessages ==
    {Message(f, t, b) : f \in Peers, t \in {1, 2}, b \in Bodies \cup {<<"\"">>}}

\* A frame is well formed when its text, white space aside, is the serialized
\* record of a Message.
WellFormedFrame(line) ==
    \E m \in FrameMessages : TrimSpace(line) = MarshalMessage(m)

FrameMessage(line) ==
    CHOOSE m \in FrameMessages : TrimSpace(line) = MarshalMessage(m)

\* The Messages of the well-formed frames among the newline-terminated frames
\* of b, in order; and the texts of the malformed ones.
RECURSIVE WellFormedFrames(_)
WellFormedFrames(b) ==
    IF ~HasLine(b) THEN <<>>
    ELSE LET r == ReadString(b)
         IN  (IF WellFormedFrame(r.line) THEN <<FrameMessage(r.line)>> ELSE <<>>)
                 \o WellFormedFrames(r.rest)

RECURSIVE MalformedFrames(_)
MalformedFrames(b) ==
    IF ~HasLine(b) THEN <<>>
    ELSE LET r == ReadString(b)
         IN  (IF WellFormedFrame(r.line) THEN <<>> ELSE <<TrimSpace(r.line)>>)
                 \o MalformedFrames(r.rest)

CountNewLines(b) == Cardinality({i \in 1..Len(b) : b[i] = NewLine})

SentOk(st) == st.kind = "send" /\ st.sent

OneFrameOnly(st) ==
    /\ CountNewLines(st.written) = 1
    /\ st.written[Len(st.written)] = NewLine

DeliveredAreTheSent(st) ==
    /\ st.invalid = <<>>
    /\ Len(st.delivered) <= 1
    /\ \A j \in 1..Len(st.delivered) :
          st.delivered[j].from = st.src /\ st.delivered[j].body = st.arg

\* The frame of the stream lies complete before B's running handler: its
\* next read returns it.
FrameAwaitsHandler(st) ==
    /\ st.hpc = "run"
    /\ st.delivered = <<>>
    /\ st.unread = st.written

\* C8: when Send(B, body) from A has returned ok, the stream carries exactly
\* one frame; B's handler never delivers more than one Message for it and
\* reports no malformed frame; any Message it delivers has from = A and the
\* body sent; and while A is connected to B (the connection under the stream
\* is not lost) the handler has either delivered exactly one Message or is
\* running with the whole frame before it, so that it never returns, and
\* never runs out of input, with none delivered.
C8_SendDeliversExactlyOne ==
    \A i \in 1..Len(streams) :
        SentOk(streams[i])
        => /\ OneFrameOnly(streams[i])
           /\ DeliveredAreTheSent(streams[i])
           /\ ~streams[i].broken
                => \/ Len(streams[i].delivered) = 1
                   \/ FrameAwaitsHandler(streams[i])

\* A body with a quote, a backslash and a newline was sent and delivered, and
\* the handler returned at the end of the stream.
C8_Witness ==
    \E i \in 1..Len(streams) :
        /\ SentOk(streams[i])
        /\ streams[i].hpc = "eof"
        /\ streams[i].delivered = <<Message("A", 1, <<"\"", "\\", "\n">>)>>

\* C9: a stream opened by sendMessage is closed on the sender's side once
\* that call has returned, whether the write succeeded or failed; a call that
\* failed before or in NewStream made no stream; so a sender that is not
\* inside sendMessage holds no open outbound stream.
C9_SendClosesItsStream ==
    /\ \A i \in 1..Len(streams) :
          streams[i].kind = "send" /\ streams[i].sopen
          => pc[streams[i].src] = "write" /\ loc[streams[i].src].sid = i
    /\ \A n \in Nodes :
          res[n].op = "send" /\ res[n].err \in {ErrDecode, ErrNewStream} => res[n].sid = 0

\* A sendMessage returned a write error and its stream is closed.
C9_Witness ==
    \E n \in Nodes :
        /\ pc[n] = "idle"
        /\ res[n].op = "send" /\ res[n].err = ErrWrite
        /\ ~streams[res[n].sid].sopen
        /\ streams[res[n].sid].eof

\* C14: every Message a handler has delivered names, in its from field, the
\* peer at the other end of the stream it was read from.
C14_FromIsTheSender ==
    \A i \in 1..Len(streams) :
        \A j \in 1..Len(streams[i].delivered) :
            streams[i].delivered[j].from = streams[i].src

\* The step in which the handler of stream i returns.
HandlerReturns(i) == streams[i].hpc = "run" /\ streams'[i].hpc # "run"

\* C16: a handler that has returned did so at the end of its stream, with no
\* whole frame left to read, or on a read error, and has closed the stream;
\* a handler that has not returned holds its stream open, and once the end
\* of the stream or a read error is all that its read can return, its return
\* is its next step; the step in which it returns changes nothing of the
\* command loop.  So while the stream is neither closed by the sender nor
\* failed, the handler does not return, whatever frames it has read.
C16_HandlerEndsWithItsStream ==
    /\ [](\A i \in 1..Len(streams) :
            LET st == streams[i]
            IN  /\ st.hpc = "eof" => st.eof /\ ~HasLine(st.unread) /\ ~st.ropen
                /\ st.hpc = "err" => st.broken /\ ~st.ropen
                /\ st.hpc = "run" => st.ropen
                /\ st.hpc = "run" /\ st.eof /\ ~st.broken /\ ~HasLine(st.unread)
                      => ENABLED HandlerEOF(i)
                /\ st.hpc = "run" /\ st.broken => ENABLED HandlerReadErr(i))
    /\ [][\A i \in 1..Len(streams) :
            HandlerReturns(i) => pc' = pc /\ loc' = loc /\ res' = res]_vars

\* A handler read a malformed frame and a well-formed one, then returned at
\* the end of the stream and closed it.
C16_Witness ==
    \E i \in 1..Len(streams) :
        /\ streams[i].hpc = "eof" /\ ~streams[i].ropen
        /\ streams[i].invalid # <<>> /\ streams[i].delivered # <<>>

\* C19: what a handler has read of its stream is a whole number of
\* newline-terminated frames, each of them delivered or reported, and no
\* more: bytes that no newline follows are never taken for a frame, also
\* after the handler has returned at the end of the stream or on a read
\* error.
C19_OnlyTerminatedFramesDelivered ==
    \A i \in 1..Len(streams) :
        LET st == streams[i]
            read == Consumed(st)
        IN  /\ Len(st.delivered) + Len(st.invalid) = CountNewLines(read)
            /\ read # <<>> => read[Len(read)] = NewLine
            /\ Len(st.delivered) <= Len(WellFormedFrames(st.written))

\* A sender wrote a frame and then a well-formed record with no newline
\* after it, and closed the stream: the handler returned having delivered
\* the frame only; the record lies unread.
C19_Witness ==
    \E i \in 1..Len(streams) :
        /\ streams[i].hpc = "eof"
        /\ streams[i].unread = MarshalMessage(Message(streams[i].src, 2, <<"\"">>))
        /\ Len(streams[i].delivered) = 1
        /\ streams[i].invalid = <<>>

\* ------------------------------------------------- invites and connectPeer

\* Most connect commands typed in a run.
MaxConnects == 2

\* A text is a sequence of symbols; Slash separates the parts of a multiaddr.
Slash == "/"

IPs == {"1", "2"}
Ports == {"7"}
ProtocolNames == {"ip4", "tcp", "p2p"}

ErrMultiaddr == <<"failed to parse multiaddr">>
ErrInvalidAddr == <<"invalid p2p multiaddr">>
ErrDial == <<"failed to dial">>

PermanentAddrTTL == "permanent"
TempAddrTTL == "temp"
TTLRank(ttl) == IF ttl = PermanentAddrTTL THEN 2 ELSE 1

\* strings.Contains
Contains(s, sub) ==
    \E i \in 1..(Len(s) - Len(sub) + 1) : SubSeq(s, i, i + Len(sub) - 1) = sub

P2pMarker == <<Slash, "p2p", Slash>>

\* strings.TrimRight(s, "/") and strings.Split(s, "/"), as NewMultiaddr
\* applies them to its argument.
RECURSIVE TrimRightSlash(_)
TrimRightSlash(s) ==
    IF s # <<>> /\ s[Len(s)] = Slash THEN TrimRightSlash(SubSeq(s, 1, Len(s) - 1))
    ELSE s

RECURSIVE Split(_)
Split(s) ==
    IF \A i \in 1..Len(s) : s[i] # Slash THEN <<s>>
    ELSE LET k == CHOOSE i \in 1..Len(s) :
                      s[i] = Slash /\ \A j \in 1..(i - 1) : s[j] # Slash
         IN  <<SubSeq(s, 1, k - 1)>> \o Split(SubSeq(s, k + 1, Len(s)))

KnownProtocol(part) == Len(part) = 1 /\ part[1] \in ProtocolNames

ValidValue(name, part) ==
    /\ Len(part) = 1
    /\ CASE name = "ip4" -> part[1] \in IPs
         [] name = "tcp" -> part[1] \in Ports
         [] OTHER        -> DecodesAsPeer(part[1])

\* The loop of NewMultiaddr over the parts: a protocol name, then its value.
RECURSIVE ParseComponents(_)
ParseComponents(sp) ==
    IF sp = <<>> THEN [err |-> Nil, m |-> <<>>]
    ELSE IF ~KnownProtocol(sp[1]) \/ Len(sp) < 2 THEN [err |-> ErrMultiaddr, m |-> <<>>]
    ELSE IF ~ValidValue(sp[1][1], sp[2]) THEN [err |-> ErrMultiaddr, m |-> <<>>]
    ELSE LET rest == ParseComponents(SubSeq(sp, 3, Len(sp)))
         IN  IF rest.err # Nil THEN rest
             ELSE [err |-> Nil,
                   m |-> <<[name |-> sp[1][1], value |-> sp[2][1]]>> \o rest.m]

\* ma.NewMultiaddr: the text must begin with a slash and hold at least one
\* component; trailing slashes are dropped.
NewMultiaddr(s) ==
    LET sp == Split(TrimRightSlash(s))
    IN  IF sp[1] # <<>> \/ Len(sp) = 1 THEN [err |-> ErrMultiaddr, m |-> <<>>]
        ELSE ParseComponents(Tail(sp))

\* peer.AddrInfoFromP2pAddr: the last component must be /p2p/<id>; what is
\* before it, when there is anything, is the one address of the peer.
AddrInfoFromP2pAddr(m) ==
    IF m = <<>> \/ m[Len(m)].name # "p2p"
    THEN [err |-> ErrInvalidAddr, ID |-> "", Addrs |-> {}]
    ELSE [err |-> Nil, ID |-> m[Len(m)].value,
          Addrs |-> IF Len(m) = 1 THEN {} ELSE {SubSeq(m, 1, Len(m) - 1)}]

\* Multiaddr.String and the invite line printInvite prints for an address.
RECURSIVE AddrText(_)
AddrText(a) ==
    IF a = <<>> THEN <<>>
    ELSE <<Slash, a[1].name, Slash, a[1].value>> \o AddrText(Tail(a))

\* (an invite line with the peer identifier straight after the address)
InviteTextNoMarker(a, id) == AddrText(a) \o <<Slash, id>>

InviteText(a, id) == AddrText(a) \o <<Slash, "p2p", Slash, id>>

\* A directory that drops what it knew of the peer.
SetAddrs(book, id, addrs, ttl) ==
    {e \in book : e.id # id} \cup {[id |-> id, addr |-> a, ttl |-> ttl] : a \in addrs}

\* Peerstore().AddAddrs: a new address is added; a known one keeps the longer
\* of its validity and the new one; nothing else changes.
AddAddrs(book, id, addrs, ttl) ==
    LET outlived(e) == e.id = id /\ e.addr \in addrs /\ TTLRank(e.ttl) < TTLRank(ttl)
        known(a) == \E e \in book : e.id = id /\ e.addr = a /\ ~outlived(e)
    IN  {e \in book : ~outlived(e)}
            \cup {[id |-> id, addr |-> a, ttl |-> ttl] : a \in {b \in addrs : ~known(b)}}

Addr1 == <<[name |-> "ip4", value |-> "1"], [name |-> "tcp", value |-> "7"]>>
Addr2 == <<[name |-> "ip4", value |-> "2"]>>

\* What the operator may type after "connect".
Invites ==
    { InviteText(Addr1, "B"),                  \* a printed invite
      InviteText(Addr2, "B") \o <<Slash>>,     \* another, with a slash after it
      InviteText(Addr2, "M"),
      InviteText(<<>>, "B"),                   \* a peer identifier and no address
      AddrText(Addr1),                         \* an address and no peer identifier
      <<"x">> \o InviteText(Addr2, "B"),       \* no leading slash
      InviteText(Addr1, NotAPeerID),           \* not a peer identifier
      <<Slash, "ip4", Slash, "x">> }           \* not an address

\* What a directory may hold before the run.
InitialBooks ==
    { {}, {[id |-> "B", addr |-> Addr2, ttl |-> TempAddrTTL]},
      {[id |-> "B", addr |-> Addr1, ttl |-> PermanentAddrTTL],
       [id |-> "M", addr |-> Addr1, ttl |-> TempAddrTTL]} }

NoAddrInfo == [err |-> Nil, ID |-> "", Addrs |-> {}]

NoConnectLocals == [addrStr |-> <<>>, pi |-> NoAddrInfo, before |-> {}]

NoConnectResult ==
    [op |-> "none", err |-> Nil, addrStr |-> <<>>, pi |-> NoAddrInfo, before |-> {},
     dialed |-> FALSE]

InitConnect ==
    /\ kv = [k \in Keys |-> NoValue]
    /\ pc = [n \in Nodes |-> "idle"]
    /\ loc = [n \in Nodes |-> NoConnectLocals]
    /\ res = [n \in Nodes |-> NoConnectResult]
    /\ lastPut = [k \in Keys |-> <<>>]
    /\ issued = 0
    /\ streams = <<>>
    /\ \E book \in InitialBooks :
          peerstore = [n \in Nodes |-> IF n \in Senders THEN book ELSE {}]
    /\ conns = {}
    /\ disk = NoFile

\* connectPeer up to h.Connect: both parses, then the registration.
ConnectPeer(n, addrStr) ==
    /\ pc[n] = "idle"
    /\ issued < MaxConnects
    /\ issued' = issued + 1
    /\ LET first == NewMultiaddr(addrStr)
           parsed == IF first.err # Nil /\ Contains(addrStr, P2pMarker)
                     THEN NewMultiaddr(addrStr)
                     ELSE first
           pi == AddrInfoFromP2pAddr(parsed.m)
           failed(err) ==
               /\ res' = [res EXCEPT ![n] =
                            [op |-> "connect", err |-> err, addrStr |-> addrStr,
                             pi |-> NoAddrInfo, before |-> peerstore[n],
                             dialed |-> FALSE]]
               /\ UNCHANGED <<pc, loc, peerstore>>
       IN  IF parsed.err # Nil THEN failed(parsed.err)
           ELSE IF pi.err # Nil THEN failed(pi.err)
           ELSE /\ peerstore' = [peerstore EXCEPT ![n] =
                                   AddAddrs(@, pi.ID, pi.Addrs, PermanentAddrTTL)]
                /\ loc' = [loc EXCEPT ![n] =
                             [addrStr |-> addrStr, pi |-> pi, before |-> peerstore[n]]]
                /\ pc' = [pc EXCEPT ![n] = "dial"]
                /\ UNCHANGED res
    /\ UNCHANGED <<disk, kv, lastPut, streams, conns>>

\* h.Connect succeeds only towards another peer the directory has an address
\* of; it may always fail.
DialOutcomes(n, pi) ==
    {ErrDial} \cup
        (IF pi.ID # n /\ \E e \in peerstore[n] : e.id = pi.ID THEN {Nil} ELSE {})

\* connectPeer from h.Connect to its return.
ConnectDial(n) ==
    /\ pc[n] = "dial"
    /\ \E err \in DialOutcomes(n, loc[n].pi) :
          /\ conns' = IF err = Nil THEN conns \cup {<<n, loc[n].pi.ID>>} ELSE conns
          /\ res' = [res EXCEPT ![n] =
                       [op |-> "connect", err |-> err, addrStr |-> loc[n].addrStr,
                        pi |-> loc[n].pi, before |-> loc[n].before, dialed |-> TRUE]]
    /\ pc' = [pc EXCEPT ![n] = "idle"]
    /\ loc' = [loc EXCEPT ![n] = NoConnectLocals]
    /\ UNCHANGED <<disk, kv, lastPut, issued, streams, peerstore>>

\* What h.Addrs() may return: the addresses the host listens on.
ListenAddrs == {<<>>, <<Addr1>>, <<Addr2, Addr1>>}

\* printInvite: one line for each address of the host, in their order; with
\* no address, a notice and no line.
PrintInvite(n) ==
    /\ pc[n] = "idle"
    /\ \E addrs \in ListenAddrs :
          res' = [res EXCEPT ![n] =
                    [op |-> "invite", err |-> Nil, id |-> n, addrs |-> addrs,
                     lines |-> IF Len(addrs) = 0 THEN <<>>
                               ELSE [k \in 1..Len(addrs) |-> InviteText(addrs[k], n)]]]
    /\ UNCHANGED <<disk, kv, pc, loc, lastPut, issued, streams, peerstore, conns>>

NextConnect ==
    \/ \E n \in Senders, addrStr \in Invites : ConnectPeer(n, addrStr)
    \/ \E n \in Senders : ConnectDial(n)
    \/ \E n \in Writers : PrintInvite(n)

SpecConnect == InitConnect /\ [][NextConnect]_vars

\* ----------------------------------------------------- connect properties

AddressParseErrors == {ErrMultiaddr, ErrInvalidAddr}

\* The addresses and identifiers an invite of this model can name.
InviteAddrs == {Addr1, Addr2, <<>>}

\* An invite is the text printed for an address and a peer identifier, with
\* or without slashes after it.
IsInviteOf(s, a, id) == TrimRightSlash(s) = InviteText(a, id)

WellFormedInvite(s) == \E a \in InviteAddrs, id \in Peers : IsInviteOf(s, a, id)

\* The address the invite names is in the directory under the identifier the
\* invite names, with permanent validity.
Registered(book, s) ==
    \A a \in InviteAddrs \ {<<>>}, id \in Peers :
        IsInviteOf(s, a, id) => [id |-> id, addr |-> a, ttl |-> PermanentAddrTTL] \in book

\* Every address of the directory before is in the directory after, under the
\* same identifier and valid at least as long.
Kept(before, after) ==
    \A e \in before :
        \E f \in after : f.id = e.id /\ f.addr = e.addr /\ TTLRank(f.ttl) >= TTLRank(e.ttl)

\* C10: a connect command whose invite does not parse returns a parse error,
\* leaves the peer directory as it was and dials nobody; one whose invite
\* parses has the invite's address in the directory, under the invite's peer
\* identifier and with permanent validity, when it starts dialing and when it
\* has returned, with a dial error as well as without; and no address that
\* was in the directory before the command is missing after it.
C10_ConnectRegistersBeforeDialing ==
    \A n \in Nodes :
        /\ pc[n] = "dial"
             => /\ WellFormedInvite(loc[n].addrStr)
                /\ Registered(peerstore[n], loc[n].addrStr)
                /\ Kept(loc[n].before, peerstore[n])
        /\ pc[n] = "idle" /\ res[n].op = "connect"
             => IF WellFormedInvite(res[n].addrStr)
                THEN /\ res[n].dialed
                     /\ res[n].err \in {Nil, ErrDial}
                     /\ Registered(peerstore[n], res[n].addrStr)
                     /\ Kept(res[n].before, peerstore[n])
                ELSE /\ res[n].err \in AddressParseErrors
                     /\ ~res[n].dialed
                     /\ peerstore[n] = res[n].before

\* A connect to a peer the directory already knew at another address failed
\* in the dial: the new address is registered and the old one is still there.
C10_Witness ==
    \E n \in Nodes :
        /\ pc[n] = "idle"
        /\ res[n].op = "connect" /\ res[n].err = ErrDial
        /\ res[n].before = {[id |-> "B", addr |-> Addr2, ttl |-> TempAddrTTL]}
        /\ peerstore[n] = res[n].before
               \cup {[id |-> "B", addr |-> Addr1, ttl |-> PermanentAddrTTL]}

\* What connectPeer's two parsers make of a text.
Decode(s) ==
    LET parsed == NewMultiaddr(s)
    IN  IF parsed.err # Nil THEN [err |-> parsed.err, ID |-> "", Addrs |-> {}]
        ELSE AddrInfoFromP2pAddr(parsed.m)

MaxStarts == 3

\* The private keys the generator can draw.
PrivKeys == {1, 2, 3}

ErrNotExist == <<"no such file or directory">>
ErrIO == <<"input/output error">>
ErrKeyFormat == <<"invalid private key">>
ErrGenerate == <<"key generation failed">>
ErrWriteFile == <<"write failed">>

\* crypto.MarshalPrivateKey: the key type, then the key.
MarshalPrivateKey(priv) == <<"ed25519", FormatInt(priv)>>

\* crypto.UnmarshalPrivateKey
UnmarshalPrivateKey(b) ==
    IF Len(b) = 2 /\ b[1] = "ed25519" /\ IsDigit(b[2]) /\ ParseInt(b[2]) \in PrivKeys
    THEN [err |-> Nil, priv |-> ParseInt(b[2])]
    ELSE [err |-> ErrKeyFormat, priv |-> 0]

\* The peer identifier of a key (h.ID() of the host made with it).
PeerIDOf(priv) == <<"peer", FormatInt(priv)>>

\* os.Stat(path): no such file when there is none; with a file there, nil, or
\* an error of the file system.
Stat(file) == IF file = NoFile THEN {ErrNotExist} ELSE {Nil, ErrIO}

\* os.ReadFile(path)
ReadFile(file) == {[err |-> Nil, b |-> file], [err |-> ErrIO, b |-> <<>>]}

\* crypto.GenerateKeyPairWithReader(crypto.Ed25519, -1, rand.Reader)
GenerateKeyPair == {[err |-> Nil, priv |-> k] : k \in PrivKeys}
                       \cup {[err |-> ErrGenerate, priv |-> 0]}

\* os.WriteFile(path, b, 0600): the file holds b; or the write fails, before
\* the file is opened (the file is as it was) or after it was truncated.
WriteFile(file, b) ==
    {[err |-> Nil, file |-> b],
     [err |-> ErrWriteFile, file |-> file],
     [err |-> ErrWriteFile, file |-> <<>>]}

\* What loadOrCreateIdentity can return, and leave on the disk, on a disk
\* that holds file.
LoadOrCreateIdentity(file) ==
    UNION { IF st = Nil
            THEN { IF rd.err # Nil
                   THEN [err |-> rd.err, priv |-> 0, file |-> file, stat |-> st]
                   ELSE [err |-> UnmarshalPrivateKey(rd.b).err,
                         priv |-> UnmarshalPrivateKey(rd.b).priv,
                         file |-> file, stat |-> st]
                   : rd \in ReadFile(file) }
            ELSE UNION { IF g.err # Nil
                         THEN {[err |-> g.err, priv |-> 0, file |-> file, stat |-> st]}
                         ELSE { [err |-> w.err,
                                 priv |-> IF w.err = Nil THEN g.priv ELSE 0,
                                 file |-> w.file, stat |-> st]
                                : w \in WriteFile(file, MarshalPrivateKey(g.priv)) }
                         : g \in GenerateKeyPair }
            : st \in Stat(file) }

\* What the path may hold before the first start: nothing, the record of an
\* earlier run, bytes that are not a key, an empty file.
InitialFiles == {NoFile, MarshalPrivateKey(1), <<"x">>, <<>>}

NoStartResult ==
    [op |-> "none", err |-> Nil, priv |-> 0, id |-> <<>>, before |-> NoFile,
     stat |-> Nil]

InitIdentity ==
    /\ kv = [k \in Keys |-> NoValue]
    /\ pc = [n \in Nodes |-> "idle"]
    /\ loc = [n \in Nodes |-> NoLocals]
    /\ res = [n \in Nodes |-> NoStartResult]
    /\ lastPut = [k \in Keys |-> <<>>]
    /\ issued = 0
    /\ streams = <<>>
    /\ peerstore = [n \in Nodes |-> {}]
    /\ conns = {}
    /\ disk \in InitialFiles

\* The process of node n starts (the one before it has ended): main calls
\* loadOrCreateIdentity(identityFile) and makes its host with the key, or
\* prints the error and returns.
Start(n) ==
    /\ issued < MaxStarts
    /\ issued' = issued + 1
    /\ \E r \in LoadOrCreateIdentity(disk) :
          /\ disk' = r.file
          /\ res' = [res EXCEPT ![n] =
                       [op |-> "start", err |-> r.err, priv |-> r.priv,
                        id |-> IF r.err = Nil THEN PeerIDOf(r.priv) ELSE <<>>,
                        before |-> disk, stat |-> r.stat]]
    /\ UNCHANGED <<kv, pc, loc, lastPut, streams, peerstore, conns>>

NextIdentity == \E n \in Senders : Start(n)

SpecIdentity == InitIdentity /\ [][NextIdentity]_vars

\* ---------------------------------------------------- identity properties

ValidRecord(file) == file # NoFile /\ UnmarshalPrivateKey(file).err = Nil

\* C13: a start that finds no record and returns a key has persisted that
\* key; a start on a path that holds a valid record leaves the record as it
\* is and, when it returns a key, returns the key of the record (and so the
\* same peer identifier as the run before); a start on a path that holds a
\* record that is not a valid key returns an error and leaves the record as
\* it is.
C13_IdentityIsStable ==
    \A n \in Nodes :
        res[n].op = "start"
        => /\ res[n].before = NoFile /\ res[n].err = Nil
                => disk = MarshalPrivateKey(res[n].priv)
           /\ ValidRecord(res[n].before)
                => /\ disk = res[n].before
                   /\ res[n].err = Nil
                        => res[n].id = PeerIDOf(UnmarshalPrivateKey(res[n].before).priv)
           /\ res[n].before # NoFile /\ ~ValidRecord(res[n].before)
                => res[n].err # Nil /\ disk = res[n].before

\* ------------------------------------- handlers beside the command loop

\* Most inbound streams open beside a command.
MaxInbound == 2

\* The frame a remote peer sends, and sends again.
GoodFrame == Frame(Message("M", 1, <<"h">>))

InitIndependent ==
    /\ kv = [k \in Keys |-> NoValue]
    /\ pc = [n \in Nodes |-> "idle"]
    /\ loc = [n \in Nodes |-> NoConnectLocals]
    /\ res = [n \in Nodes |-> NoConnectResult]
    /\ lastPut = [k \in Keys |-> <<>>]
    /\ issued = 0
    /\ streams = <<>>
    /\ peerstore = [n \in Nodes |-> {}]
    /\ conns = {}
    /\ disk = NoFile

\* B's operator types connect commands while remote peers write to B: each
\* handler is a goroutine of its own, the command loop another.
NextIndependent ==
    \/ \E src \in RemotePeers : RawOpenUpTo(MaxInbound, src, "B")
    \/ \E i \in 1..Len(streams) : RawWrite(i, GoodFrame)
    \/ \E i \in 1..Len(streams) : RawClose(i)
    \/ \E i \in 1..Len(streams) : Break(i)
    \/ \E i \in 1..Len(streams) : HandlerRead(i)
    \/ \E i \in 1..Len(streams) : HandlerEOF(i)
    \/ \E i \in 1..Len(streams) : HandlerReadErr(i)
    \/ ConnectPeer("B", InviteText(Addr1, "A"))
    \/ ConnectDial("B")

\* The next step of the handler of stream i.
HandlerStep(i) ==
    /\ i \in 1..Len(streams)
    /\ HandlerRead(i) \/ HandlerEOF(i) \/ HandlerReadErr(i)

\* Every handler is scheduled fairly; nothing is assumed of the collaborators
\* a command waits for, nor of the remote peers.
SpecIndependent ==
    /\ InitIndependent
    /\ [][NextIndependent]_vars
    /\ \A i \in 1..MaxInbound : WF_vars(HandlerStep(i))

\* ------------------------------------------ properties of independence

\* Stream i has been sent k well-formed frames.
Arrived(i, k) ==
    i \in 1..Len(streams) /\ Len(WellFormedFrames(streams[i].written)) >= k

\* The handler of stream i has delivered k Messages, or its connection failed.
DeliveredOrCut(i, k) ==
    i \in 1..Len(streams)
        /\ (Len(streams[i].delivered) >= k \/ streams[i].broken)

\* A step that ends the handler of one stream leaves every other stream, and
\* the command loop, as they were.
EndsOnlyItsOwn ==
    \A i \in 1..Len(streams) :
        streams[i].hpc = "run" /\ streams'[i].hpc # "run"
        => /\ streams[i].eof \/ streams[i].broken
           /\ \A j \in 1..Len(streams) : j # i => streams'[j] = streams[j]
           /\ pc' = pc /\ res' = res

\* C15: with handlers scheduled fairly, the k-th frame sent on a stream is
\* delivered (unless the connection under that stream fails), whatever the
\* other streams do or fail to do and whether or not a command of the node
\* is waiting for its collaborator, for ever if need be; and the end of one
\* stream's handler, at end of stream or on a read error, ends no other.
C15_HandlersProgressIndependently ==
    /\ \A i \in 1..MaxInbound : \A k \in 1..MaxWrites :
          Arrived(i, k) ~> DeliveredOrCut(i, k)
    /\ [][EndsOnlyItsOwn]_vars

\* A frame was delivered on the second stream while the first stream is idle
\* and open with its handler running, and a command is waiting in h.Connect.
C15_Witness ==
    /\ Len(streams) = 2
    /\ streams[1].written = <<>> /\ streams[1].hpc = "run" /\ ~streams[1].eof
    /\ Len(streams[2].delivered) = 1
    /\ pc["B"] = "dial"

====
